---- MODULE Spec2Model ----
(***************************************************************************)
(* booksonpaste (bop): generate_text and the cached source acquisition of  *)
(* src/booksonpaste/bop.py as a state machine.                             *)
(*                                                                         *)
(* A text is a sequence of one-character strings over the alphabet         *)
(* Letters \cup Puncts \cup Spaces \cup Newlines \cup Markers.  A          *)
(* marker stands for one whole Project Gutenberg marker line body:         *)
(*   "S" = "*** START OF THE PROJECT GUTENBERG EBOOK <title> ***"          *)
(*   "E" = "*** END OF THE PROJECT GUTENBERG EBOOK <title> ***"            *)
(***************************************************************************)
EXTENDS Integers, Sequences, FiniteSets, TLC

\* ------------------------------------------------------------- bounds
\* Largest small target size a request may ask for (besides ScenarioTarget).
MaxTarget == 6
\* get_random_text calls one generate_text call may make before the model stops it.
MaxFetches == 3
\* Invocations of the program over one cache lifetime.
MaxRuns == 1

\* ------------------------------------------------------------ alphabet
NL == "\n"
CR == "\r"
SP == " "
Letters == {"a", "b"}
Puncts == {"."}
Markers == {"S", "E"}
Newlines == {NL, CR}
\* what str.strip() and str.split() treat as whitespace
Whitespace == {SP, NL, CR}
\* the paragraph separator '\n\n'
Separator == <<NL, NL>>

Min(a, b) == IF a < b THEN a ELSE b
Max(a, b) == IF a > b THEN a ELSE b

\* [c] * n
Rep(c, n) == [i \in 1..n |-> c]

\* s[i:] of Python, i a 1-based first index
Tail_(s, i) == SubSeq(s, i, Len(s))

\* ''.join(parts)
RECURSIVE Join(_)
Join(parts) == IF parts = <<>> THEN <<>> ELSE Head(parts) \o Join(Tail(parts))

\* ' '.join(words)
RECURSIVE JoinSpace(_)
JoinSpace(words) ==
    IF words = <<>> THEN <<>>
    ELSE IF Len(words) = 1 THEN Head(words)
    ELSE Head(words) \o <<SP>> \o JoinSpace(Tail(words))

\* s[:k] of Python: a negative k counts from the end of s
PySlicePrefix(s, k) ==
    IF k >= 0 THEN SubSeq(s, 1, Min(k, Len(s)))
    ELSE SubSeq(s, 1, Max(Len(s) + k, 0))

\* the least and the greatest element of a non-empty set of integers
Least(S) == CHOOSE i \in S : \A j \in S : i <= j
Greatest(S) == CHOOSE i \in S : \A j \in S : j <= i

\* s.lstrip(), s.strip()
LStrip(s) ==
    LET black == {i \in 1..Len(s) : s[i] \notin Whitespace}
    IN IF black = {} THEN <<>> ELSE Tail_(s, Least(black))
Strip(s) ==
    LET black == {i \in 1..Len(s) : s[i] \notin Whitespace}
    IN IF black = {} THEN <<>> ELSE SubSeq(s, Least(black), Greatest(black))

\* first index i >= from with s[i] = s[i+1] = '\n', or 0
SepAt(s, from) ==
    LET hits == {i \in from..(Len(s) - 1) : s[i] = NL /\ s[i + 1] = NL}
    IN IF hits = {} THEN 0 ELSE Least(hits)

\* s.split('\n\n'): left to right, non-overlapping, empty pieces kept
RECURSIVE SplitSep(_)
SplitSep(s) ==
    LET i == SepAt(s, 1)
    IN IF i = 0 THEN <<s>>
       ELSE <<SubSeq(s, 1, i - 1)>> \o SplitSep(Tail_(s, i + 2))

\* [x for x in seq if keep]
RECURSIVE NonEmpty(_)
NonEmpty(seq) ==
    IF seq = <<>> THEN <<>>
    ELSE IF Head(seq) = <<>> THEN NonEmpty(Tail(seq))
    ELSE <<Head(seq)>> \o NonEmpty(Tail(seq))

\* [p.strip() for p in text.split('\n\n') if p.strip()]
SplitParagraphs(text) ==
    LET pieces == SplitSep(text)
    IN NonEmpty([i \in 1..Len(pieces) |-> Strip(pieces[i])])

\* paragraph.split(): the maximal runs of non-whitespace
RECURSIVE Words(_)
Words(s) ==
    LET t == LStrip(s)
        ends == {i \in 1..Len(t) : t[i] \in Whitespace}
        e == IF ends = {} THEN Len(t) + 1 ELSE Least(ends)
    IN IF t = <<>> THEN <<>>
       ELSE <<SubSeq(t, 1, e - 1)>> \o Words(Tail_(t, e))

\* ----------------------------------------------------------- tokenizer
\* [^\s\p{L}\p{N}] on the model's alphabet
PunctLike == Puncts \cup Markers

\* last index of the maximal run of characters of K that starts at i (i - 1: no run)
RunEnd(s, i, K) ==
    LET stops == {j \in i..Len(s) : s[j] \notin K}
    IN IF stops = {} THEN Len(s) ELSE Least(stops) - 1

\* Last index of the pre-token that starts at i, by the alternatives of the
\* cl100k_base split pattern in their order:
\*   [^\r\n\p{L}\p{N}]?\p{L}+ | ?[^\s\p{L}\p{N}]+[\r\n]* |\s*[\r\n]+|\s+(?!\S)|\s+
ChunkEnd(s, i) ==
    LET c == s[i]
        more == i < Len(s)
    IN IF c \in Letters THEN RunEnd(s, i, Letters)
       ELSE IF c \notin Newlines /\ more /\ s[i + 1] \in Letters
            THEN RunEnd(s, i + 1, Letters)
       ELSE IF c \in PunctLike
            THEN RunEnd(s, RunEnd(s, i, PunctLike) + 1, Newlines)
       ELSE IF c = SP /\ more /\ s[i + 1] \in PunctLike
            THEN RunEnd(s, RunEnd(s, i + 1, PunctLike) + 1, Newlines)
       ELSE LET r == RunEnd(s, i, Whitespace)
                nls == {j \in i..r : s[j] \in Newlines}
            IN IF nls # {} THEN Greatest(nls)
               ELSE IF r = Len(s) THEN r
               ELSE IF r > i THEN r - 1
               ELSE r

RECURSIVE CountFrom(_, _)
CountFrom(s, i) == IF i > Len(s) THEN 0 ELSE 1 + CountFrom(s, ChunkEnd(s, i) + 1)

\* len(enc.encode(text)): every pre-token of the model's texts is one vocabulary entry
count_tokens(text) == CountFrom(text, 1)

\* --------------------------------------------------- source acquisition
\* smallest index >= from of a character of K, or 0
FirstIn(s, K, from) ==
    LET hits == {i \in from..Len(s) : s[i] \in K}
    IN IF hits = {} THEN 0 ELSE Least(hits)

\* largest index of a character of K, or 0
LastIn(s, K) ==
    LET hits == {i \in 1..Len(s) : s[i] \in K}
    IN IF hits = {} THEN 0 ELSE Greatest(hits)

\* re.sub(r'\*\*\* START OF .+ PROJECT GUTENBERG .+ \*\*\*.*?\n', '', text, DOTALL):
\* from the first START marker, both greedy .+ run on to the last marker that
\* still has a newline after it, and the lazy .*? ends at the first such newline.
SubStart(text) ==
    LET i == FirstIn(text, {"S"}, 1)
        lastNL == LastIn(text, {NL})
        ms == {j \in 1..Len(text) : j >= i /\ j < lastNL /\ text[j] \in Markers}
        j == Greatest(ms)
    IN IF i = 0 \/ ms = {} THEN text
       ELSE SubSeq(text, 1, i - 1) \o Tail_(text, FirstIn(text, {NL}, j) + 1)

\* re.sub(r'\*\*\* END OF .+ PROJECT GUTENBERG .+ \*\*\*.*', '', text, DOTALL)
SubEnd(text) ==
    LET i == FirstIn(text, {"E"}, 1)
    IN IF i = 0 THEN text ELSE SubSeq(text, 1, i - 1)

\* the header and footer clean-up of download_text
Clean(text) == SubEnd(SubStart(text))

\* os.linesep of the platform the tool runs on (pbcopy: macOS)
LineSep == NL

\* cache_path.write_text(text): text mode, '\n' is written as os.linesep
WriteText(text) == [i \in 1..Len(text) |-> IF text[i] = NL THEN LineSep ELSE text[i]]

\* file[lo..hi] read with universal newlines: '\r\n' and '\r' are read as '\n'
\* (the '\n' of a '\r\n' is dropped, every '\r' becomes '\n')
RECURSIVE ReadRange(_, _, _)
ReadRange(file, lo, hi) ==
    IF lo > hi THEN <<>>
    ELSE IF lo = hi
         THEN IF file[lo] = NL /\ lo > 1 /\ file[lo - 1] = CR THEN <<>>
              ELSE IF file[lo] = CR THEN <<NL>>
              ELSE <<file[lo]>>
    ELSE LET mid == (lo + hi) \div 2
         IN ReadRange(file, lo, mid) \o ReadRange(file, mid + 1, hi)

\* cache_path.read_text()
ReadText(file) == ReadRange(file, 1, Len(file))

\* ------------------------------------------------------------- sources
\* The catalogue GUTENBERG_TEXTS, cut down to four sources, by file name.
GUTENBERG_TEXTS == {"plain", "gutenberg", "scenario", "blank"}

\* What requests.get(url).text yields for each source.
\*   plain:     three short paragraphs, LF line ends
\*   gutenberg: CRLF line ends and the START/END marker lines, as the site serves
\*   scenario:  three paragraphs of 40, 50 and 60 characters
\*   blank:     whitespace only, no paragraph
Remote(filename) ==
    CASE filename = "plain" ->
           <<"a", SP, "b", ".", NL, NL, "b", NL, NL, "a", SP, "b", SP, "a", SP, "b">>
      [] filename = "gutenberg" ->
           <<"a", ".", CR, NL, "S", CR, NL, "b", "b", CR, NL, CR, NL,
             "E", CR, NL, CR, NL, CR, NL, "b", SP, "a">>
      [] filename = "scenario" ->
           Rep("a", 40) \o Separator \o Rep("b", 50) \o Separator \o Rep("a", 60)
      [] filename = "blank" ->
           <<SP, NL, NL, SP, NL>>

\* target_size of the concrete scenarios (tests: target_size = 100)
ScenarioTarget == 100

\* the target sizes a request may carry (parse_size accepts 0 and negatives)
Targets == (-1 .. MaxTarget) \cup {ScenarioTarget}
Modes == {"chars", "tokens"}

VARIABLES
    cache,        \* CACHE_DIR/*.txt: file name -> file content
    cacheDir,     \* CACHE_DIR exists
    returned,     \* per source: the texts download_text returned since the last clear_cache
    netGets,      \* per source: the requests.get calls made since the last clear_cache
    runs,         \* invocations of the program so far
    pc,           \* where generate_text stands
    target_size,
    mode,
    paragraphs,
    fetches,      \* get_random_text calls of this generate_text call
    start_idx,
    current_idx,
    current_size,
    result,
    iterations,   \* passes through the body of the accumulation loop
    appended,     \* the pool indexes appended whole, in order
    partial_taken,\* the partial-paragraph branch appended a fragment
    exit_by       \* the break that ended the loop: "overflow" or "wrap"

vars == <<cache, cacheDir, returned, netGets, runs, pc, target_size, mode, paragraphs,
          fetches, start_idx, current_idx, current_size, result, iterations,
          appended, partial_taken, exit_by>>

callVars == <<target_size, mode, paragraphs, fetches, start_idx, current_idx,
              current_size, result, iterations, appended, partial_taken, exit_by>>

walkVars == <<start_idx, current_idx, current_size, result, iterations, appended,
              partial_taken, exit_by>>

cacheVars == <<cache, cacheDir, returned, netGets>>

NoFiles == [f \in {} |-> <<>>]

\* the locals of a generate_text call that has not started
CallReset ==
    /\ target_size' = 0
    /\ mode' = "chars"
    /\ paragraphs' = <<>>
    /\ fetches' = 0
    /\ start_idx' = 0
    /\ current_idx' = 0
    /\ current_size' = 0
    /\ result' = <<>>
    /\ iterations' = 0
    /\ appended' = <<>>
    /\ partial_taken' = FALSE
    /\ exit_by' = "none"

Init ==
    /\ cache = NoFiles
    /\ cacheDir = FALSE
    /\ returned = [f \in GUTENBERG_TEXTS |-> {}]
    /\ netGets = [f \in GUTENBERG_TEXTS |-> 0]
    /\ runs = 0
    /\ pc = "idle"
    /\ target_size = 0
    /\ mode = "chars"
    /\ paragraphs = <<>>
    /\ fetches = 0
    /\ start_idx = 0
    /\ current_idx = 0
    /\ current_size = 0
    /\ result = <<>>
    /\ iterations = 0
    /\ appended = <<>>
    /\ partial_taken = FALSE
    /\ exit_by = "none"

\* ------------------------------------------------------- download_text
\* cache_path.exists()
Cached(filename) == filename \in DOMAIN cache

\* the text a download_text call that does not raise returns
DownloadResult(filename) ==
    IF Cached(filename) THEN ReadText(cache[filename]) ELSE Clean(Remote(filename))

\* the cache files after a download_text call that does not raise
CacheAfterDownload(filename) ==
    IF Cached(filename) THEN cache
    ELSE [f \in DOMAIN cache \cup {filename} |->
            IF f = filename THEN WriteText(Clean(Remote(filename))) ELSE cache[f]]

\* the requests.get calls after a download_text call (raising or not)
GetsAfterDownload(filename) ==
    IF Cached(filename) THEN netGets
    ELSE [netGets EXCEPT ![filename] = @ + 1]

\* get_random_text that writes the cache file before raise_for_status is checked.
GetRandomText_WriteBeforeCheck(filename, ok) ==
    /\ ok \/ ~Cached(filename)
    /\ cacheDir' = TRUE
    /\ netGets' = GetsAfterDownload(filename)
    /\ cache' = CacheAfterDownload(filename)
    /\ IF ok
       THEN returned' = [returned EXCEPT ![filename] = @ \cup {DownloadResult(filename)}]
       ELSE UNCHANGED returned

\* get_random_text() with random.choice = filename; ok: the request does not raise.
\* A cached source is read from disk, so only an uncached one can fail.
GetRandomText(filename, ok) ==
    /\ ok \/ ~Cached(filename)
    /\ cacheDir' = TRUE
    /\ netGets' = GetsAfterDownload(filename)
    /\ IF ok
       THEN /\ cache' = CacheAfterDownload(filename)
            /\ returned' = [returned EXCEPT ![filename] = @ \cup {DownloadResult(filename)}]
       ELSE UNCHANGED <<cache, returned>>

\* ensure_clean_cache(): clear_cache then ensure_cache_dir
ClearCache ==
    /\ pc = "idle"
    /\ cache' = NoFiles
    /\ cacheDir' = TRUE
    /\ returned' = [f \in GUTENBERG_TEXTS |-> {}]
    /\ netGets' = [f \in GUTENBERG_TEXTS |-> 0]
    /\ UNCHANGED <<runs, pc>>
    /\ UNCHANGED callVars

\* ------------------------------------------------------- generate_text
RECURSIVE SumLen(_)
SumLen(ps) == IF ps = <<>> THEN 0 ELSE Len(Head(ps)) + SumLen(Tail(ps))

RECURSIVE SumTokens(_)
SumTokens(ps) == IF ps = <<>> THEN 0 ELSE count_tokens(Head(ps)) + SumTokens(Tail(ps))

\* The pool-building loop left out: one source is always taken to be enough.
NeedMore_Never(ps, m, target) == FALSE

\* The condition of the pool-building while loop.  total < target_size * 1.2 is
\* 5 * total < 6 * target_size: for the integers of the model the float product
\* compares with an integer as the exact product does.
NeedMore(ps, m, target) ==
    \/ m = "chars" /\ 5 * SumLen(ps) < 6 * target
    \/ m = "tokens" /\ 5 * SumTokens(ps) < 6 * target

\* next_size that leaves the separator out of the chars size.
NextSize_NoSeparator(paragraph, m) ==
    IF m = "tokens" THEN count_tokens(paragraph) ELSE Len(paragraph)

\* next_size of the loop body
NextSize(paragraph, m) ==
    IF m = "tokens" THEN count_tokens(paragraph) ELSE Len(paragraph \o Separator)

\* the for loop over words: the words taken before the first that does not fit
RECURSIVE TakeWords(_, _, _)
TakeWords(words, partial_size, target) ==
    IF words = <<>> THEN <<>>
    ELSE LET word_size == count_tokens(Head(words) \o <<SP>>)
         IN IF partial_size + word_size > target THEN <<>>
            ELSE <<Head(words)>> \o TakeWords(Tail(words), partial_size + word_size, target)

\* Partial without the `if partial:` guard: the joined words are appended even
\* when no word was taken.
Partial_NoGuard(paragraph, m, target) ==
    IF m = "tokens"
    THEN <<JoinSpace(TakeWords(Words(paragraph), 0, target)) \o Separator>>
    ELSE <<PySlicePrefix(paragraph, target - 2) \o Separator>>

\* Partial reserving three characters instead of the separator's two.
Partial_OffByOne(paragraph, m, target) ==
    IF m = "tokens"
    THEN LET partial == TakeWords(Words(paragraph), 0, target)
         IN IF partial # <<>> THEN <<JoinSpace(partial) \o Separator>> ELSE <<>>
    ELSE <<PySlicePrefix(paragraph, target - 3) \o Separator>>

\* what the partial-paragraph branch appends to result (nothing, or one fragment)
Partial(paragraph, m, target) ==
    IF m = "tokens"
    THEN LET partial == TakeWords(Words(paragraph), 0, target)
         IN IF partial # <<>> THEN <<JoinSpace(partial) \o Separator>> ELSE <<>>
    ELSE <<PySlicePrefix(paragraph, target - 2) \o Separator>>

\* The overflow test with >= in place of >: a paragraph that fits exactly is refused.
Overflows_AtEqual(size, next_size, target) == size + next_size >= target

\* the if of the loop body: adding this paragraph would exceed the target size
Overflows(size, next_size, target) == size + next_size > target

\* The cursor that is never moved.
Advance_Stuck(idx, n) == idx

\* (current_idx + 1) % len(paragraphs)
Advance(idx, n) == (idx + 1) % n

\* main: parse_size and the call of generate_text, up to the first fetch
Request(target, m) ==
    /\ pc = "idle"
    /\ runs < MaxRuns
    /\ runs' = runs + 1
    /\ pc' = "fetch"
    /\ target_size' = target
    /\ mode' = m
    /\ UNCHANGED <<paragraphs, fetches>>
    /\ UNCHANGED walkVars
    /\ UNCHANGED cacheVars

\* source_text = get_random_text() and its split into paragraphs
FetchFirst(filename, ok) ==
    /\ pc = "fetch"
    /\ GetRandomText(filename, ok)
    /\ fetches' = 1
    /\ IF ok
       THEN /\ paragraphs' = SplitParagraphs(DownloadResult(filename))
            /\ pc' = "build"
       ELSE /\ pc' = "failed"
            /\ UNCHANGED paragraphs
    /\ UNCHANGED <<runs, target_size, mode>>
    /\ UNCHANGED walkVars

\* one pass of the while loop: additional_text = get_random_text(), extend
FetchMore(filename, ok) ==
    /\ pc = "build"
    /\ NeedMore(paragraphs, mode, target_size)
    /\ fetches < MaxFetches
    /\ GetRandomText(filename, ok)
    /\ fetches' = fetches + 1
    /\ IF ok
       THEN /\ paragraphs' = paragraphs \o SplitParagraphs(DownloadResult(filename))
            /\ pc' = "build"
       ELSE /\ pc' = "failed"
            /\ UNCHANGED paragraphs
    /\ UNCHANGED <<runs, target_size, mode>>
    /\ UNCHANGED walkVars

\* the loop is left; start_idx = random.randint(0, len(paragraphs) - 1), which
\* raises ValueError on an empty pool
PickStart ==
    /\ pc = "build"
    /\ ~NeedMore(paragraphs, mode, target_size)
    /\ IF paragraphs = <<>>
       THEN /\ pc' = "crashed"
            /\ UNCHANGED <<start_idx, current_idx>>
       ELSE /\ \E s \in 0 .. (Len(paragraphs) - 1) :
                 /\ start_idx' = s
                 /\ current_idx' = s
            /\ pc' = "walk"
    /\ current_size' = 0
    /\ result' = <<>>
    /\ UNCHANGED <<runs, target_size, mode, paragraphs, fetches, iterations, appended,
                   partial_taken, exit_by>>
    /\ UNCHANGED cacheVars

\* one pass of the accumulation loop (while True)
WalkStep ==
    /\ pc = "walk"
    /\ iterations' = iterations + 1
    /\ LET paragraph == paragraphs[current_idx + 1]
           next_size == NextSize(paragraph, mode)
       IN IF Overflows(current_size, next_size, target_size)
          THEN /\ IF result = <<>>
                  THEN LET part == Partial(paragraph, mode, target_size)
                       IN /\ result' = part
                          /\ partial_taken' = (part # <<>>)
                  ELSE UNCHANGED <<result, partial_taken>>
               /\ pc' = "done"
               /\ exit_by' = "overflow"
               /\ UNCHANGED <<current_size, current_idx, appended>>
          ELSE /\ result' = Append(result, paragraph \o Separator)
               /\ appended' = Append(appended, current_idx)
               /\ current_size' = current_size + next_size
               /\ current_idx' = Advance(current_idx, Len(paragraphs))
               /\ IF current_idx' = start_idx
                  THEN pc' = "done" /\ exit_by' = "wrap"
                  ELSE pc' = "walk" /\ UNCHANGED exit_by
               /\ UNCHANGED partial_taken
    /\ UNCHANGED <<runs, target_size, mode, paragraphs, fetches, start_idx>>
    /\ UNCHANGED cacheVars

\* return ''.join(result)
ReturnedText == Join(result)

\* the invocation ends: the text was delivered, or main reported the exception
Exit ==
    /\ pc \in {"done", "failed", "crashed"}
    /\ pc' = "idle"
    /\ CallReset
    /\ UNCHANGED runs
    /\ UNCHANGED cacheVars

Next ==
    \/ ClearCache
    \/ \E target \in Targets, m \in Modes : Request(target, m)
    \/ \E filename \in GUTENBERG_TEXTS, ok \in BOOLEAN : FetchFirst(filename, ok)
    \/ \E filename \in GUTENBERG_TEXTS, ok \in BOOLEAN : FetchMore(filename, ok)
    \/ PickStart
    \/ WalkStep
    \/ Exit

Spec == Init /\ [][Next]_vars

\* ============================================================== claims
\* the size of a text in the unit of the mode: len(text) or count_tokens(text)
MeasuredSize(text, m) == IF m = "tokens" THEN count_tokens(text) ELSE Len(text)

\* the pool's total measured size, as the pool builder sums it
PoolTotal == IF mode = "tokens" THEN SumTokens(paragraphs) ELSE SumLen(paragraphs)

\* the paragraph at the start index
StartParagraph == paragraphs[start_idx + 1]

\* C1 (as claimed): for every target > 0, in both modes and from every start
\* index, the measured size of the text generate_text returns is at most the
\* target.
C1_NeverExceedsTarget ==
    (pc = "done" /\ target_size > 0)
        => MeasuredSize(ReturnedText, mode) <= target_size

\* C2 (as claimed): when the pool's total measured size is at least the target
\* (target > 0), the returned text is non-empty, in both modes.
C2_NonEmpty ==
    (pc = "done" /\ target_size > 0 /\ PoolTotal >= target_size)
        => ReturnedText # <<>>

\* C2 (amended): under the same precondition the returned text is empty exactly
\* when the mode is tokens, the start paragraph alone exceeds the target and not
\* even its first word fits (count_tokens(word + ' ') > target); in chars mode
\* it is never empty.
C2_NonEmptyUnlessNoWordFits ==
    (pc = "done" /\ target_size > 0 /\ PoolTotal >= target_size)
        => (ReturnedText = <<>>
              <=> /\ mode = "tokens"
                  /\ count_tokens(StartParagraph) > target_size
                  /\ count_tokens(Head(Words(StartParagraph)) \o <<SP>>) > target_size)

\* C2 witness: tokens mode, the start paragraph overflows and the partial branch
\* yields a non-empty fragment.
C2_Witness ==
    /\ pc = "done"
    /\ mode = "tokens"
    /\ target_size > 0
    /\ PoolTotal >= target_size
    /\ partial_taken
    /\ ReturnedText # <<>>

\* C3 (as claimed): a target <= 0 is rejected before accumulation begins:
\* the call never returns a text and nothing is appended to result.
C3_NonPositiveRejected ==
    (pc # "idle" /\ target_size <= 0) => (pc # "done" /\ result = <<>>)

\* the sizes of the first k words, each measured as count_tokens(word + ' ')
RECURSIVE WordsSize(_, _)
WordsSize(words, k) ==
    IF k = 0 THEN 0
    ELSE count_tokens(words[k] \o <<SP>>) + WordsSize(words, k - 1)

\* the fragment C4 describes for a paragraph and a target
ClaimedFragment(paragraph, m, target) ==
    IF m = "chars"
    THEN SubSeq(paragraph, 1, Max(target - 2, 0)) \o Separator
    ELSE LET words == Words(paragraph)
             fit == {k \in 0..Len(words) : WordsSize(words, k) <= target}
             k == Greatest(fit)
         IN IF k = 0 THEN <<>>
            ELSE JoinSpace(SubSeq(words, 1, k)) \o Separator

\* every paragraph of the pool is, on its own, larger than the target
AllOverflow ==
    \A i \in 1..Len(paragraphs) : NextSize(paragraphs[i], mode) > target_size

\* C4 (as claimed): when every paragraph alone exceeds the target (> 0), the
\* returned text is exactly the truncated fragment of the start paragraph: in
\* chars mode its first max(target - 2, 0) characters plus the separator, in
\* tokens mode the longest fitting prefix of its words plus the separator, or
\* the empty string.
C4_SingleFragment ==
    (pc = "done" /\ target_size > 0 /\ AllOverflow)
        => ReturnedText = ClaimedFragment(StartParagraph, mode, target_size)

\* C5 (as claimed): between two clear_cache calls every download_text call for a
\* source returns the same text, and once one call has returned, no later call
\* for that source goes to the network.
C5_Idempotent ==
    [][\A f \in GUTENBERG_TEXTS :
          (returned[f] # {} /\ returned'[f] # {})
              => (returned'[f] = returned[f] /\ netGets'[f] = netGets[f])]_vars

ScenarioPool == SplitParagraphs(Remote("scenario"))

InScenario ==
    /\ pc \in {"walk", "done"}
    /\ mode = "chars"
    /\ target_size = ScenarioTarget
    /\ paragraphs = ScenarioPool
    /\ start_idx = 0

\* the scenario's run, with the total length of the returned text as parameter
ScenarioRun(total) ==
    /\ <<Len(paragraphs[1]), Len(paragraphs[2]), Len(paragraphs[3])>> = <<40, 50, 60>>
    /\ iterations <= 3
    /\ iterations = 0 => (pc = "walk" /\ current_size = 0 /\ appended = <<>>)
    /\ iterations = 1 => (pc = "walk" /\ current_size = 42 /\ appended = <<0>>)
    /\ iterations = 2 => (pc = "walk" /\ current_size = 94 /\ appended = <<0, 1>>)
    /\ iterations = 3
         => /\ pc = "done"
            /\ exit_by = "overflow"
            /\ current_idx = 2
            /\ current_size + NextSize(paragraphs[3], mode) = 156
    /\ pc = "done"
         => /\ result = <<paragraphs[1] \o Separator, paragraphs[2] \o Separator>>
            /\ Len(ReturnedText) = total

\* C7 (as claimed): chars mode, paragraphs of 40, 50 and 60 characters, start 0,
\* target 100: paragraph 0 is appended (accumulated 42), then paragraph 1 (94),
\* paragraph 2 would give 156 > 100, and paragraphs 0 and 1 with their separators
\* are returned, of total length 92.
C7_ScenarioLength92 == InScenario => ScenarioRun(92)

\* C7 (amended): the same run, and the returned text has total length 94
\* (40 + 2 + 50 + 2), the accumulated size.
C7_ScenarioLength94 == InScenario => ScenarioRun(94)

\* C7 witness: the scenario's call has returned.
C7_Witness == InScenario /\ pc = "done"

\* C8: a failed fetch, the first or an additional one, ends the generate_text
\* call with the exception: the failing download_text leaves the cache files as
\* they were, no text is returned, and nothing more is fetched by that call.
C8_FetchFailureFatal ==
    [][/\ (pc # "failed" /\ pc' = "failed")
            => /\ pc \in {"fetch", "build"}
               /\ cache' = cache
               /\ returned' = returned
               /\ result' = <<>>
       /\ pc = "failed"
            => /\ pc' = "idle"
               /\ cache' = cache
               /\ netGets' = netGets
               /\ returned' = returned
               /\ result' = <<>>]_vars

\* C8 witness: an additional pool-building fetch failed after the first one had
\* been cached.
C8_Witness ==
    /\ pc = "failed"
    /\ fetches = 2
    /\ cache # NoFiles

\* C9: the accumulation loop makes at most len(pool) passes, appends every pool
\* index at most once, goes on only while the cursor has not come back to the
\* start index, and when it ends without an overflow the cursor is back at the
\* start index and every paragraph has been appended once.
C9_LoopTerminates ==
    pc \in {"walk", "done"}
        => LET n == Len(paragraphs)
           IN /\ n > 0
              /\ iterations <= n
              /\ pc = "walk" => iterations < n
              /\ Len(appended) <= iterations
              /\ \A i \in 1..Len(appended) : appended[i] \in 0 .. (n - 1)
              /\ \A i, j \in 1..Len(appended) : appended[i] = appended[j] => i = j
              /\ (pc = "walk" /\ iterations > 0) => current_idx # start_idx
              /\ pc = "done" => exit_by \in {"overflow", "wrap"}
              /\ exit_by = "wrap"
                   => /\ current_idx = start_idx
                      /\ iterations = n
                      /\ Len(appended) = n

\* C9 witness: the loop ended after the cursor had wrapped from the last pool
\* index to index 0.
C9_Witness ==
    /\ pc = "done"
    /\ iterations >= 3
    /\ \E i \in 1 .. (Len(appended) - 1) :
          appended[i] = Len(paragraphs) - 1 /\ appended[i + 1] = 0

\* the pool index of the i-th paragraph of the walk (i from 1)
WalkIndex(i) == (start_idx + i - 1) % Len(paragraphs)

\* the measured size of the first k paragraphs of the walk
RECURSIVE CumSize(_)
CumSize(k) ==
    IF k = 0 THEN 0
    ELSE NextSize(paragraphs[WalkIndex(k) + 1], mode) + CumSize(k - 1)

IsPrefix(ps, qs) == Len(ps) <= Len(qs) /\ SubSeq(qs, 1, Len(ps)) = ps

\* C11 (as claimed): whatever the fetches return, also texts without any
\* paragraph, the pool builder does not crash; it fetches again only while the
\* pool's total is below 1.2 x target, each time appending to the pool without
\* reordering or removing a paragraph; and the walk starts with a pool that is
\* non-empty and whose total is at least 1.2 x target.
C11_PoolBuilderTolerant ==
    [][/\ pc' # "crashed"
       /\ (pc = "build" /\ pc' = "build")
            => /\ NeedMore(paragraphs, mode, target_size)
               /\ IsPrefix(paragraphs, paragraphs')
       /\ (pc = "build" /\ pc' = "walk")
            => /\ paragraphs' = paragraphs
               /\ paragraphs # <<>>
               /\ 5 * PoolTotal >= 6 * target_size]_vars

\* the measured size of the whole pool as the accumulation loop sizes it
WalkTotal == CumSize(Len(paragraphs))

\* C12: for a target > 0, in both modes, the pool the walk runs on has a total
\* of at least 1.2 x target, so its paragraphs cannot all fit: the walk never
\* appends every paragraph and always ends at the overflow break, never at the
\* check for the cursor being back at the start index.
C12_AlwaysEndsAtOverflow ==
    (pc \in {"walk", "done"} /\ target_size > 0)
        => /\ 5 * PoolTotal >= 6 * target_size
           /\ WalkTotal > target_size
           /\ Len(appended) < Len(paragraphs)
           /\ exit_by # "wrap"
           /\ pc = "done" => exit_by = "overflow"

\* C12 witness: the walk appended all paragraphs of the pool but one and ended
\* at the overflow of the last.
C12_Witness ==
    /\ pc = "done"
    /\ target_size > 0
    /\ exit_by = "overflow"
    /\ Len(paragraphs) >= 3
    /\ Len(appended) = Len(paragraphs) - 1

====
